---- MODULE Spec2Model ----
(***************************************************************************)
(* Model of fenics_adjoint/solving.py (the annotated solve entry point and *)
(* the solve Blocks with their adjoint / Hessian passes) and of            *)
(* pyadjoint/verification.py (taylor_test and convergence_rates).          *)
(***************************************************************************)
EXTENDS Integers, Sequences, FiniteSets, TLC

VARIABLES tape,            \* the working tape: sequence of solve Blocks
          bvs,             \* every BlockVariable ever created (index = identity)
          block_variable,  \* object -> its current BlockVariable
          stack,           \* solve calls in flight (inside backend.solve)
          stop_annotating, \* nesting depth of stop_annotating()
          last,            \* the replay pass that ended last
          tt,              \* the taylor_test call
          live,            \* object -> the version of its live value
          sv               \* the variational solve whose adjoint solver is chosen

vars == <<tape, bvs, block_variable, stack, stop_annotating, last, tt, live, sv>>

(***************************************************************************)
(* Bounds                                                                  *)
(***************************************************************************)
MaxBlocks == 2
MaxDepth == 2

(***************************************************************************)
(* Values.  None is the empty tuple; every other value is a non-empty      *)
(* tuple, so that any two values can be compared.                          *)
(***************************************************************************)
None == <<>>

\* The objects of the user's program, by backend type.
Functions == {"u", "f"}
Constants == {"k"}
Expressions == {"e"}
DirichletBCs == {"bc1", "bc2"}
Meshes == {"mesh"}
ObjList == <<"u", "f", "k", "e", "bc1", "bc2", "mesh">>

Kind(c) ==
    IF c \in Functions THEN "Function"
    ELSE IF c \in Constants THEN "Constant"
    ELSE IF c \in Expressions THEN "Expression"
    ELSE IF c \in DirichletBCs THEN "DirichletBC"
    ELSE "Mesh"

Range(s) == {s[i] : i \in 1..Len(s)}

\* A ufl.Form is known by its coefficients(); a right-hand side that is not
\* a Form (the 0 of a nonlinear residual) has isForm = FALSE.
Form(cs) == [isForm |-> TRUE, coefficients |-> cs]
NotAForm == [isForm |-> FALSE, coefficients |-> <<>>]

CallbackKeys == {"adj_cb", "adj_bdy_cb", "adj2_cb", "adj2_bdy_cb"}
pop_kwargs_keys ==
    CallbackKeys \cup {"forward_args", "forward_kwargs", "adj_args", "adj_kwargs"}

(***************************************************************************)
(* Block.add_dependency: appends dep.block_variable, unless no_duplicates  *)
(* is requested and the BlockVariable is already registered.               *)
(***************************************************************************)
add_dependency(deps, bv, no_duplicates) ==
    IF no_duplicates /\ bv \in Range(deps) THEN deps ELSE Append(deps, bv)

RECURSIVE add_all(_, _, _, _)
add_all(deps, cs, bvOf, no_duplicates) ==
    IF cs = <<>> THEN deps
    ELSE add_all(add_dependency(deps, bvOf[Head(cs)], no_duplicates),
                 Tail(cs), bvOf, no_duplicates)

\* GenericSolveBlock.__init__, lines 97-114: the linear flag and the
\* dependency list (rhs coefficients of a linear equation, lhs coefficients,
\* boundary conditions with no_duplicates; the mesh without).
IsLinear(lhs, rhs) == lhs.isForm /\ rhs.isForm

InitDependencies_duplicates(lhs, rhs, bcs, mesh, bvOf) ==
    LET d1 == IF IsLinear(lhs, rhs)
              THEN add_all(<<>>, rhs.coefficients, bvOf, FALSE)
              ELSE <<>>
        d2 == add_all(d1, lhs.coefficients, bvOf, FALSE)
        d3 == add_all(d2, bcs, bvOf, FALSE)
    IN  add_dependency(d3, bvOf[mesh], FALSE)

InitDependencies(lhs, rhs, bcs, mesh, bvOf) ==
    LET d1 == IF IsLinear(lhs, rhs)
              THEN add_all(<<>>, rhs.coefficients, bvOf, TRUE)
              ELSE <<>>
        d2 == add_all(d1, lhs.coefficients, bvOf, TRUE)
        d3 == add_all(d2, bcs, bvOf, TRUE)
    IN  add_dependency(d3, bvOf[mesh], FALSE)

\* GenericSolveBlock.__init__ as a whole: the new Block.
GenericSolveBlock(lhs, rhs, func, bcs, mesh, kwargs, system, bvOf) ==
    [ adj_cb       |-> "adj_cb" \in kwargs,
      adj_bdy_cb   |-> "adj_bdy_cb" \in kwargs,
      adj2_cb      |-> "adj2_cb" \in kwargs,
      adj2_bdy_cb  |-> "adj2_bdy_cb" \in kwargs,
      adj_sol      |-> None,
      lhs          |-> lhs,
      rhs          |-> rhs,
      func         |-> func,
      bcs          |-> bcs,
      linear       |-> IsLinear(lhs, rhs),
      system       |-> system,
      dependencies |-> InitDependencies(lhs, rhs, bcs, mesh, bvOf),
      outputs      |-> <<>> ]

(***************************************************************************)
(* The solve entry point                                                   *)
(***************************************************************************)
\* A call: the equation (system = TRUE when it is given as an assembled
\* matrix / vector pair) with its unknown, the boundary conditions, the
\* keyword arguments (the set of keys given; "annotate" stands for
\* annotate=False).
Equations ==
    { [lhs |-> Form(<<"k">>), rhs |-> Form(<<"f">>), func |-> "u",
       system |-> FALSE],
      [lhs |-> Form(<<"k", "f">>), rhs |-> Form(<<"f", "k">>), func |-> "u",
       system |-> FALSE],
      [lhs |-> Form(<<"f">>), rhs |-> Form(<<"u", "f">>), func |-> "u",
       system |-> TRUE],
      [lhs |-> Form(<<"u", "k">>), rhs |-> NotAForm, func |-> "u",
       system |-> FALSE],
      [lhs |-> Form(<<"u", "e">>), rhs |-> Form(<<"k">>), func |-> "f",
       system |-> FALSE] }

BcLists == { <<>>, <<"bc1", "bc2", "bc1">> }

KwargSets ==
    { {"solver_parameters"}, {"annotate", "solver_parameters"}, CallbackKeys }

SolveCalls == [eq : Equations, bcs : BcLists, kwargs : KwargSets]

\* annotate_tape(kwargs): pops "annotate" (default True); annotation is off
\* while stop_annotating() is active.
annotate_tape(kwargs, stop) == "annotate" \notin kwargs /\ stop = 0

\* The snapshot a BlockVariable saves of its object's value when it is
\* registered: the version of the value at that time.
Snapshot(obj, version) == <<"snapshot", obj, version>>

\* OverloadedType.create_block_variable: a fresh BlockVariable for the
\* object, which becomes the object's current one.
create_block_variable(seq, bvOf, obj, creator) ==
    [bvs |-> Append(seq, [output |-> obj, creator |-> creator,
                          saved_output |-> Snapshot(obj, 0),
                          tlm_value |-> None]),
     id  |-> Len(seq) + 1]

\* solve, lines 49-52: the Block of an annotated call.
NewBlock(c, bvOf) ==
    GenericSolveBlock(c.eq.lhs, c.eq.rhs, c.eq.func, c.bcs, "mesh",
                      c.kwargs, c.eq.system, bvOf)

\* solve, lines 49-50 and 55: the keyword arguments backend.solve receives.
backend_kwargs_unpopped(kwargs, annotate) == kwargs

backend_kwargs(kwargs, annotate) ==
    IF annotate THEN (kwargs \ {"annotate"}) \ pop_kwargs_keys
    ELSE kwargs \ {"annotate"}

\* solve, lines 57-62: the output BlockVariable of Block blk.
AttachOutput_existing(tp, seq, bvOf, blk) ==
    [tape |-> [tp EXCEPT ![blk].outputs = Append(@, bvOf[tp[blk].func])],
     bvs  |-> seq,
     block_variable |-> bvOf]

AttachOutput(tp, seq, bvOf, blk) ==
    LET cbv == create_block_variable(seq, bvOf, tp[blk].func, blk)
    IN  [tape |-> [tp EXCEPT ![blk].outputs = Append(@, cbv.id)],
         bvs  |-> cbv.bvs,
         block_variable |-> [bvOf EXCEPT ![tp[blk].func] = cbv.id]]

\* solve, line 54: "with stop_annotating()" is entered (the depth of active
\* stop_annotating contexts) and, below, left.
EnterStopAnnotating_absent(depth) == depth

EnterStopAnnotating(depth) == depth + 1

ExitStopAnnotating(depth) == depth - 1

\* solve, lines 41-55: decide on annotation, construct the Block and append
\* it to the tape; then enter stop_annotating() and call backend.solve.
SolveCall(c) ==
    /\ Len(stack) < MaxDepth
    /\ LET annotate == annotate_tape(c.kwargs, stop_annotating)
           frame == [annotate |-> annotate,
                     block    |-> IF annotate THEN Len(tape) + 1 ELSE 0,
                     kwargs   |-> c.kwargs,
                     backend_kwargs |-> backend_kwargs(c.kwargs, annotate),
                     tape0    |-> tape,
                     nbvs0    |-> Len(bvs)]
       IN  /\ annotate => Len(tape) < MaxBlocks
           /\ tape' = IF annotate
                      THEN Append(tape, NewBlock(c, block_variable))
                      ELSE tape
           /\ stack' = Append(stack, frame)
    /\ stop_annotating' = EnterStopAnnotating(stop_annotating)
    /\ UNCHANGED <<bvs, block_variable, last, tt, live, sv>>

\* solve, lines 55-64: backend.solve returned; leave stop_annotating(),
\* create the output BlockVariable and attach it to the Block.
BackendReturn ==
    /\ stack # <<>>
    /\ LET fr == stack[Len(stack)]
           out == AttachOutput(tape, bvs, block_variable, fr.block)
       IN  /\ stack' = SubSeq(stack, 1, Len(stack) - 1)
           /\ stop_annotating' = ExitStopAnnotating(stop_annotating)
           /\ IF fr.annotate
              THEN /\ bvs' = out.bvs
                   /\ block_variable' = out.block_variable
                   /\ tape' = out.tape
              ELSE UNCHANGED <<bvs, block_variable, tape>>
    /\ UNCHANGED <<last, tt, live, sv>>

\* solve, line 55: backend.solve raised; stop_annotating() is left and the
\* exception propagates, lines 57-64 do not run.
BackendRaise ==
    /\ stack # <<>>
    /\ stack' = SubSeq(stack, 1, Len(stack) - 1)
    /\ stop_annotating' = ExitStopAnnotating(stop_annotating)
    /\ UNCHANGED <<tape, bvs, block_variable, last, tt, live, sv>>

NoPass == [kind |-> "none"]
NoTaylor == [pc |-> "none"]

InitBlockVariables ==
    [i \in 1..Len(ObjList) |-> [output |-> ObjList[i], creator |-> 0,
                                saved_output |-> Snapshot(ObjList[i], 0),
                                tlm_value |-> None]]

\* No object has been changed since it was registered.
InitLive == [o \in Range(ObjList) |-> 0]

NoSolver == [pc |-> "none"]

InitBlockVariableOf ==
    [o \in Range(ObjList) |-> CHOOSE i \in 1..Len(ObjList) : ObjList[i] = o]

InitSolve ==
    /\ bvs = InitBlockVariables
    /\ block_variable = InitBlockVariableOf
    /\ tape = <<>>
    /\ stack = <<>>
    /\ stop_annotating = 0
    /\ last = NoPass
    /\ tt = NoTaylor
    /\ live = InitLive
    /\ sv = NoSolver

\* A call that is not annotated hands its equation and boundary conditions
\* to the backend unread (lines 41-42, 54-55): one such call stands for all
\* the calls with the same keyword arguments.
Representative(c) ==
    \/ annotate_tape(c.kwargs, stop_annotating)
    \/ c.eq = (CHOOSE e \in Equations : TRUE) /\ c.bcs = <<>>

NextSolve ==
    \/ \E c \in SolveCalls : Representative(c) /\ SolveCall(c)
    \/ BackendReturn
    \/ BackendRaise

SpecSolve == InitSolve /\ [][NextSolve]_vars

(***************************************************************************)
(* Replay passes over a solve Block                                        *)
(***************************************************************************)
\* What a pass is given: the adjoint seed of the Block's output, the
\* Hessian seed, the output's tangent-linear value (each possibly None) and
\* the relevant dependencies (positions in the dependency list).
AdjInputs == {None, <<"dJdu", 1>>, <<"dJdu", 2>>}
HessianInputs == {None, <<"hessian_input">>}
TlmValues == {None, <<"tlm_value">>}

\* The prepare step returned no dictionary.
NonePrepared == [none |-> TRUE]

DepObject(b, i) == bvs[b.dependencies[i]].output

\* block_variable.saved_output and block_variable.tlm_value of dependency i.
DepSaved(b, i) == bvs[b.dependencies[i]].saved_output

DepTlm(b, i) == bvs[b.dependencies[i]].tlm_value

\* The object itself, read where the code uses c and not c_rep: its value
\* is the live one.
LiveValue(c) == <<"live", c, live[c]>>

SpatialCoordinate(m) == <<"SpatialCoordinate", m>>

\* c == self.func and not self.linear
is_initial_guess(b, c) == c = b.func /\ ~b.linear

\* The terms of the dependencies 1..n that are in keep, in dependency
\* order, as the code's loops over get_dependencies() collect them.
Collect(n, keep, term) ==
    LET RECURSIVE go(_)
        go(i) == IF i > n THEN <<>>
                 ELSE (IF i \in keep THEN <<term[i]>> ELSE <<>>) \o go(i + 1)
    IN  go(1)

\* GenericSolveBlock._should_compute_boundary_adjoint
should_compute_boundary_adjoint_never(b, relevant) == FALSE

should_compute_boundary_adjoint(b, relevant) ==
    \E i \in relevant : Kind(DepObject(b, i)) = "DirichletBC"

\* SolveLinearSystemBlock._assemble_and_solve_adj_eq
LinearSystem_assemble_and_solve_adj_eq(b, form, dJdu, compute_bdy) ==
    [adj_sol     |-> <<"adj_sol", form, dJdu>>,
     adj_sol_bdy |-> IF compute_bdy THEN <<"adj_sol_bdy", form, dJdu>> ELSE None]

\* SolveVarFormBlock._assemble_and_solve_adj_eq
VarForm_assemble_and_solve_adj_eq(b, form, dJdu, compute_bdy) ==
    [adj_sol     |-> <<"adj_sol", form, dJdu>>,
     adj_sol_bdy |-> IF compute_bdy THEN <<"adj_sol_bdy", form, dJdu>> ELSE None]

\* self._assemble_and_solve_adj_eq of the Block's class.
assemble_and_solve_adj_eq(b, form, dJdu, compute_bdy) ==
    IF b.system
    THEN LinearSystem_assemble_and_solve_adj_eq(b, form, dJdu, compute_bdy)
    ELSE VarForm_assemble_and_solve_adj_eq(b, form, dJdu, compute_bdy)

Call(cb, arg) == [cb |-> cb, arg |-> arg]

\* GenericSolveBlock.prepare_evaluate_adj.  err is the exception raised
\* ("none": returned), adj_sol the Block's cache afterwards, calls the
\* callbacks invoked, in order.
prepare_evaluate_adj_bdy_cb_unguarded(b, adj_input, relevant) ==
    IF b.outputs = <<>>
    THEN [err |-> "IndexError", prepared |-> NonePrepared,
          adj_sol |-> b.adj_sol, calls |-> <<>>]
    ELSE IF adj_input = None
    THEN [err |-> "AttributeError", prepared |-> NonePrepared,
          adj_sol |-> b.adj_sol, calls |-> <<>>]
    ELSE LET compute_bdy == should_compute_boundary_adjoint(b, relevant)
             r == assemble_and_solve_adj_eq(b, "dFdu_adj", adj_input, compute_bdy)
         IN  [err |-> "none",
              prepared |-> [form |-> "F_form", adj_sol |-> r.adj_sol,
                            adj_sol_bdy |-> r.adj_sol_bdy],
              adj_sol |-> r.adj_sol,
              calls |-> (IF b.adj_cb THEN <<Call("adj_cb", r.adj_sol)>> ELSE <<>>)
                        \o (IF b.adj_bdy_cb
                            THEN <<Call("adj_bdy_cb", r.adj_sol_bdy)>> ELSE <<>>)]

\* prepare_evaluate_adj with the cache cleared when the pass raises.
prepare_evaluate_adj_clearing(b, adj_input, relevant) ==
    IF b.outputs = <<>>
    THEN [err |-> "IndexError", prepared |-> NonePrepared,
          adj_sol |-> None, calls |-> <<>>]
    ELSE IF adj_input = None
    THEN [err |-> "AttributeError", prepared |-> NonePrepared,
          adj_sol |-> None, calls |-> <<>>]
    ELSE LET compute_bdy == should_compute_boundary_adjoint(b, relevant)
             r == assemble_and_solve_adj_eq(b, "dFdu_adj", adj_input, compute_bdy)
         IN  [err |-> "none",
              prepared |-> [form |-> "F_form", adj_sol |-> r.adj_sol,
                            adj_sol_bdy |-> r.adj_sol_bdy],
              adj_sol |-> r.adj_sol,
              calls |-> (IF b.adj_cb THEN <<Call("adj_cb", r.adj_sol)>> ELSE <<>>)
                        \o (IF b.adj_bdy_cb /\ compute_bdy
                            THEN <<Call("adj_bdy_cb", r.adj_sol_bdy)>> ELSE <<>>)]

prepare_evaluate_adj(b, adj_input, relevant) ==
    IF b.outputs = <<>>
    THEN [err |-> "IndexError", prepared |-> NonePrepared,
          adj_sol |-> b.adj_sol, calls |-> <<>>]
    ELSE IF adj_input = None
    THEN [err |-> "AttributeError", prepared |-> NonePrepared,
          adj_sol |-> b.adj_sol, calls |-> <<>>]
    ELSE LET compute_bdy == should_compute_boundary_adjoint(b, relevant)
             r == assemble_and_solve_adj_eq(b, "dFdu_adj", adj_input, compute_bdy)
         IN  [err |-> "none",
              prepared |-> [form |-> "F_form", adj_sol |-> r.adj_sol,
                            adj_sol_bdy |-> r.adj_sol_bdy],
              adj_sol |-> r.adj_sol,
              calls |-> (IF b.adj_cb THEN <<Call("adj_cb", r.adj_sol)>> ELSE <<>>)
                        \o (IF b.adj_bdy_cb /\ compute_bdy
                            THEN <<Call("adj_bdy_cb", r.adj_sol_bdy)>> ELSE <<>>)]

\* GenericSolveBlock.evaluate_adj_component for dependency i.
evaluate_adj_component(b, i, prepared) ==
    LET c == DepObject(b, i)
        c_rep == DepSaved(b, i)
    IN  IF ~b.linear /\ b.func = c
        THEN [err |-> "none", value |-> None, live_reads |-> {}]
        ELSE IF prepared = NonePrepared
        THEN [err |-> "TypeError", value |-> None, live_reads |-> {}]
        ELSE IF Kind(c) = "DirichletBC"
        THEN [err |-> "none", value |-> <<"bc", c, prepared.adj_sol_bdy>>,
              live_reads |-> {}]
        ELSE IF Kind(c) = "Mesh"
        THEN [err |-> "none",
              value |-> <<"shape_derivative", c, prepared.adj_sol,
                          SpatialCoordinate(c_rep)>>,
              live_reads |-> {}]
        ELSE IF Kind(c) = "Expression"
        THEN [err |-> "none",
              value |-> <<"assembled_in_space", c, prepared.adj_sol, c_rep>>,
              live_reads |-> {}]
        ELSE [err |-> "none",
              value |-> <<"assembled", c, prepared.adj_sol, c_rep>>,
              live_reads |-> {}]

\* GenericSolveBlock._assemble_soa_eq_rhs: the cross terms of the
\* dependencies that carry a tangent value, the unknown of a nonlinear Block
\* and the boundary conditions left out; the mesh is differentiated at the
\* coordinates of the object itself.
soa_cross_term_with_initial_guess(b, i) ==
    /\ DepTlm(b, i) # None
    /\ Kind(DepObject(b, i)) # "DirichletBC"

soa_cross_term(b, i) ==
    /\ ~is_initial_guess(b, DepObject(b, i))
    /\ DepTlm(b, i) # None
    /\ Kind(DepObject(b, i)) # "DirichletBC"

soa_wrt(b, i) ==
    IF Kind(DepObject(b, i)) = "Mesh"
    THEN SpatialCoordinate(LiveValue(DepObject(b, i)))
    ELSE DepSaved(b, i)

assemble_soa_eq_rhs(b, adj_sol, hessian_input, tlm_output) ==
    <<"soa_rhs", hessian_input, adj_sol, tlm_output,
      Collect(Len(b.dependencies),
              {i \in 1..Len(b.dependencies) : soa_cross_term(b, i)},
              [i \in 1..Len(b.dependencies) |->
                  [dep |-> i, wrt |-> soa_wrt(b, i), tlm |-> DepTlm(b, i)]])>>

\* The objects whose live value _assemble_soa_eq_rhs reads.
soa_live_reads(b) ==
    {DepObject(b, i) : i \in {j \in 1..Len(b.dependencies) :
        soa_cross_term(b, j) /\ Kind(DepObject(b, j)) = "Mesh"}}

\* GenericSolveBlock._assemble_and_solve_soa_eq
assemble_and_solve_soa_eq(b, adj_sol, hessian_input, tlm_output, compute_bdy) ==
    LET r == assemble_and_solve_adj_eq(b, "dFdu",
                 assemble_soa_eq_rhs(b, adj_sol, hessian_input, tlm_output),
                 compute_bdy)
    IN  [adj_sol2     |-> r.adj_sol,
         adj_sol2_bdy |-> r.adj_sol_bdy,
         calls |-> (IF b.adj2_cb THEN <<Call("adj2_cb", r.adj_sol)>> ELSE <<>>)
                   \o (IF b.adj2_bdy_cb /\ compute_bdy
                       THEN <<Call("adj2_bdy_cb", r.adj_sol_bdy)>> ELSE <<>>)]

\* GenericSolveBlock.prepare_evaluate_hessian
prepare_evaluate_hessian_unchecked_adj_sol(b, hessian_input, tlm_output, relevant) ==
    IF b.outputs = <<>>
    THEN [err |-> "IndexError", prepared |-> NonePrepared, calls |-> <<>>]
    ELSE IF hessian_input = None
    THEN [err |-> "none", prepared |-> NonePrepared, calls |-> <<>>]
    ELSE IF tlm_output = None
    THEN [err |-> "none", prepared |-> NonePrepared, calls |-> <<>>]
    ELSE LET bdy == should_compute_boundary_adjoint(b, relevant)
             r == assemble_and_solve_soa_eq(b, b.adj_sol, hessian_input,
                                            tlm_output, bdy)
         IN  [err |-> "none",
              prepared |-> [adj_sol2 |-> r.adj_sol2,
                            adj_sol2_bdy |-> r.adj_sol2_bdy,
                            form |-> "F_form", adj_sol |-> b.adj_sol],
              calls |-> r.calls]

prepare_evaluate_hessian_unchecked_tlm(b, hessian_input, tlm_output, relevant) ==
    IF b.outputs = <<>>
    THEN [err |-> "IndexError", prepared |-> NonePrepared, calls |-> <<>>]
    ELSE IF hessian_input = None
    THEN [err |-> "none", prepared |-> NonePrepared, calls |-> <<>>]
    ELSE IF b.adj_sol = None
    THEN [err |-> "RuntimeError", prepared |-> NonePrepared, calls |-> <<>>]
    ELSE LET bdy == should_compute_boundary_adjoint(b, relevant)
             r == assemble_and_solve_soa_eq(b, b.adj_sol, hessian_input,
                                            tlm_output, bdy)
         IN  [err |-> "none",
              prepared |-> [adj_sol2 |-> r.adj_sol2,
                            adj_sol2_bdy |-> r.adj_sol2_bdy,
                            form |-> "F_form", adj_sol |-> b.adj_sol],
              calls |-> r.calls]

prepare_evaluate_hessian(b, hessian_input, tlm_output, relevant) ==
    IF b.outputs = <<>>
    THEN [err |-> "IndexError", prepared |-> NonePrepared, calls |-> <<>>]
    ELSE IF hessian_input = None
    THEN [err |-> "none", prepared |-> NonePrepared, calls |-> <<>>]
    ELSE IF tlm_output = None
    THEN [err |-> "none", prepared |-> NonePrepared, calls |-> <<>>]
    ELSE IF b.adj_sol = None
    THEN [err |-> "RuntimeError", prepared |-> NonePrepared, calls |-> <<>>]
    ELSE LET bdy == should_compute_boundary_adjoint(b, relevant)
             r == assemble_and_solve_soa_eq(b, b.adj_sol, hessian_input,
                                            tlm_output, bdy)
         IN  [err |-> "none",
              prepared |-> [adj_sol2 |-> r.adj_sol2,
                            adj_sol2_bdy |-> r.adj_sol2_bdy,
                            form |-> "F_form", adj_sol |-> b.adj_sol],
              calls |-> r.calls]

\* GenericSolveBlock.evaluate_hessian_component for dependency i.
\* The terms d^2F/dm_1dm_2 of evaluate_hessian_component, lines 452-473.
hessian_cross_term(b, j) ==
    /\ Kind(DepObject(b, j)) # "DirichletBC"
    /\ DepTlm(b, j) # None
    /\ ~is_initial_guess(b, DepObject(b, j))

hessian_cross_terms(b, relevant) ==
    Collect(Len(b.dependencies),
            {j \in 1..Len(b.dependencies) :
                j \in relevant /\ hessian_cross_term(b, j)},
            [j \in 1..Len(b.dependencies) |->
                [dep |-> j,
                 wrt |-> IF Kind(DepObject(b, j)) = "Mesh"
                         THEN SpatialCoordinate(DepSaved(b, j))
                         ELSE DepSaved(b, j),
                 tlm |-> DepTlm(b, j)]])

evaluate_hessian_component(b, i, relevant, prepared) ==
    LET c == DepObject(b, i)
        c_rep == DepSaved(b, i)
        wrt == IF Kind(c) = "Mesh" THEN SpatialCoordinate(LiveValue(c)) ELSE c_rep
    IN  IF b.func = c /\ ~b.linear
        THEN [err |-> "none", value |-> None, live_reads |-> {}]
        ELSE IF prepared = NonePrepared
        THEN [err |-> "TypeError", value |-> None, live_reads |-> {}]
        ELSE IF Kind(c) = "DirichletBC"
        THEN [err |-> "none", value |-> <<"bc", c, prepared.adj_sol2_bdy>>,
              live_reads |-> {}]
        ELSE [err |-> "none",
              value |-> <<IF Kind(c) = "Expression" THEN "hessian_in_space"
                          ELSE "hessian",
                          c, prepared.adj_sol2, prepared.adj_sol, wrt,
                          hessian_cross_terms(b, relevant)>>,
              live_reads |-> IF Kind(c) = "Mesh" THEN {c} ELSE {}]

\* Block.evaluate_adj / Block.evaluate_hessian: after the prepare step the
\* component of every relevant dependency is evaluated, in dependency order,
\* with what the prepare step returned; an exception ends the pass.
evaluate_component(kind, b, i, relevant, prepared) ==
    IF kind = "adj" THEN evaluate_adj_component(b, i, prepared)
    ELSE evaluate_hessian_component(b, i, relevant, prepared)

RECURSIVE Ascending(_)
Ascending(S) ==
    IF S = {} THEN <<>>
    ELSE LET m == CHOOSE x \in S : \A y \in S : x <= y
         IN  <<m>> \o Ascending(S \ {m})

RECURSIVE evaluate_components(_, _, _, _, _)
evaluate_components(kind, b, order, relevant, prepared) ==
    IF order = <<>> THEN [err |-> "none", results |-> <<>>, evaluated |-> <<>>]
    ELSE LET r == evaluate_component(kind, b, Head(order), relevant, prepared)
         IN  IF r.err # "none"
             THEN [err |-> r.err, results |-> <<>>, evaluated |-> <<Head(order)>>]
             ELSE LET rest == evaluate_components(kind, b, Tail(order),
                                                  relevant, prepared)
                  IN  [err |-> rest.err,
                       results |-> <<[dep |-> Head(order), value |-> r.value,
                                      live_reads |-> r.live_reads]>>
                                   \o rest.results,
                       evaluated |-> <<Head(order)>> \o rest.evaluated]

NoComponents == [err |-> "none", results |-> <<>>, evaluated |-> <<>>]

\* The traversal found no seed on the Block's output and left the Block
\* without calling its prepare step.
Skipped(b) ==
    [err |-> "none", calls |-> <<>>, prepared |-> NonePrepared,
     adj_sol |-> b.adj_sol]

\* The objects whose live value entered the results.
LiveReads(results) ==
    UNION {results[k].live_reads : k \in 1..Len(results)}

\* One adjoint pass over Block i. skips: the traversal leaves a Block whose
\* output has no seed without calling it.
AdjointPass(i, adj_input, relevant, skips) ==
    /\ stack = <<>>
    /\ last = NoPass
    /\ LET b == tape[i]
           skip == skips /\ adj_input = None
           p == IF skip THEN Skipped(b)
                ELSE prepare_evaluate_adj(b, adj_input, relevant)
           c == IF p.err = "none" /\ ~skip
                THEN evaluate_components("adj", b, Ascending(relevant),
                                         relevant, p.prepared)
                ELSE NoComponents
       IN  /\ tape' = [tape EXCEPT ![i].adj_sol = p.adj_sol]
           /\ last' = [kind |-> "adj", block |-> i, seed |-> adj_input,
                       tlm_output |-> None, relevant |-> relevant,
                       adj_sol0 |-> b.adj_sol, skipped |-> skip,
                       prepare_err |-> p.err, prepared |-> p.prepared,
                       err |-> IF p.err # "none" THEN p.err ELSE c.err,
                       results |-> c.results, evaluated |-> c.evaluated,
                       calls |-> p.calls, live_reads |-> LiveReads(c.results)]
    /\ UNCHANGED <<bvs, block_variable, stack, stop_annotating, tt, live, sv>>

\* One Hessian pass over Block i.
HessianPass(i, hessian_input, tlm_output, relevant, skips) ==
    /\ stack = <<>>
    /\ last = NoPass
    /\ LET b == tape[i]
           skip == skips /\ hessian_input = None
           p == IF skip THEN Skipped(b)
                ELSE prepare_evaluate_hessian(b, hessian_input, tlm_output, relevant)
           c == IF p.err = "none" /\ ~skip
                THEN evaluate_components("hessian", b, Ascending(relevant),
                                         relevant, p.prepared)
                ELSE NoComponents
       IN  /\ last' = [kind |-> "hessian", block |-> i, seed |-> hessian_input,
                       tlm_output |-> tlm_output, relevant |-> relevant,
                       adj_sol0 |-> b.adj_sol, skipped |-> skip,
                       prepare_err |-> p.err, prepared |-> p.prepared,
                       err |-> IF p.err # "none" THEN p.err ELSE c.err,
                       results |-> c.results, evaluated |-> c.evaluated,
                       calls |-> p.calls,
                       live_reads |->
                           (IF p.prepared # NonePrepared
                            THEN soa_live_reads(b) ELSE {})
                           \cup LiveReads(c.results)]
    /\ UNCHANGED <<tape, bvs, block_variable, stack, stop_annotating, tt, live, sv>>

\* The traversal leaves the Block: what the pass returned or raised has been
\* taken over by the caller.
PassEnd ==
    /\ last # NoPass
    /\ last' = NoPass
    /\ UNCHANGED <<tape, bvs, block_variable, stack, stop_annotating, tt, live, sv>>

\* The Blocks the passes run over: recorded by one annotated solve call
\* whose backend solve returned (the Block has its output) or raised (it has
\* none).
CallbackSets ==
    { {}, CallbackKeys, {"adj_cb", "adj2_cb"}, {"adj_bdy_cb", "adj2_bdy_cb"} }

PassCalls == [eq : Equations, bcs : BcLists, kwargs : CallbackSets]

Recorded(c, returned) ==
    LET tp == <<NewBlock(c, InitBlockVariableOf)>>
    IN  IF returned
        THEN AttachOutput(tp, InitBlockVariables, InitBlockVariableOf, 1)
        ELSE [tape |-> tp, bvs |-> InitBlockVariables,
              block_variable |-> InitBlockVariableOf]

\* The tangent values the BlockVariables carry when the passes begin: those
\* of the objects in objs, as set on the controls, and that of the Block's
\* output, as an earlier tangent-linear pass left it.
WithTangents(seq, objs, tlm_output) ==
    [k \in 1..Len(seq) |->
        [seq[k] EXCEPT !.tlm_value =
            IF seq[k].creator # 0 THEN tlm_output
            ELSE IF seq[k].output \in objs THEN <<"tlm", seq[k].output>>
            ELSE None]]

\* fwd_block_variable.tlm_value
OutputTlm(b) ==
    IF b.outputs = <<>> THEN None ELSE bvs[b.outputs[1]].tlm_value

Init ==
    /\ \E c \in PassCalls, returned \in BOOLEAN, t \in TlmValues :
           LET r == Recorded(c, returned)
           IN  /\ tape = r.tape
               /\ bvs = WithTangents(r.bvs, {}, t)
               /\ block_variable = r.block_variable
    /\ stack = <<>>
    /\ stop_annotating = 0
    /\ last = NoPass
    /\ tt = NoTaylor
    /\ live = InitLive
    /\ sv = NoSolver

Next ==
    \/ \E i \in 1..Len(tape), g \in AdjInputs, skips \in BOOLEAN :
           \E rel \in SUBSET (1..Len(tape[i].dependencies)) :
               AdjointPass(i, g, rel, skips)
    \/ \E i \in 1..Len(tape), h \in HessianInputs, skips \in BOOLEAN :
           \E rel \in SUBSET (1..Len(tape[i].dependencies)) :
               HessianPass(i, h, OutputTlm(tape[i]), rel, skips)
    \/ PassEnd

Spec == Init /\ [][Next]_vars

(***************************************************************************)
(* The tangent-linear pass and recompute; replay after the objects have    *)
(* been changed                                                            *)
(***************************************************************************)
\* GenericSolveBlock.prepare_evaluate_tlm
prepare_evaluate_tlm(b) ==
    IF b.outputs = <<>>
    THEN [err |-> "IndexError", prepared |-> NonePrepared]
    ELSE [err |-> "none", prepared |-> [form |-> "F_form", dFdu |-> "dFdu"]]

\* evaluate_tlm_component, lines 300-321: the dependencies whose tangent
\* value enters dFdm.
tlm_term_with_initial_guess(b, i) ==
    /\ Kind(DepObject(b, i)) # "DirichletBC"
    /\ DepTlm(b, i) # None

tlm_term(b, i) ==
    /\ Kind(DepObject(b, i)) # "DirichletBC"
    /\ DepTlm(b, i) # None
    /\ ~is_initial_guess(b, DepObject(b, i))

tlm_wrt(b, i) ==
    IF Kind(DepObject(b, i)) = "Mesh"
    THEN SpatialCoordinate(LiveValue(DepObject(b, i)))
    ELSE DepSaved(b, i)

\* GenericSolveBlock.evaluate_tlm_component for output idx.
evaluate_tlm_component(b, idx, prepared) ==
    LET n == Len(b.dependencies)
        bcs == Collect(n, {i \in 1..n : Kind(DepObject(b, i)) = "DirichletBC"},
                       [i \in 1..n |-> IF DepTlm(b, i) = None
                                       THEN <<"homogenized", DepObject(b, i)>>
                                       ELSE DepTlm(b, i)])
        dFdm == Collect(n, {i \in 1..n : tlm_term(b, i)},
                        [i \in 1..n |-> [dep |-> i, wrt |-> tlm_wrt(b, i),
                                         tlm |-> DepTlm(b, i)]])
    IN  [err |-> "none",
         value |-> <<"dudm", prepared.dFdu, dFdm, bcs>>,
         terms |-> dFdm,
         live_reads |-> {DepObject(b, i) : i \in {j \in 1..n :
                            tlm_term(b, j) /\ Kind(DepObject(b, j)) = "Mesh"}}]

\* _replace_form: the coefficients of the form, each replaced by the saved
\* value of the dependency it is.
replace_form(b, form) ==
    IF ~form.isForm THEN <<"0">>
    ELSE <<"form",
           [k \in 1..Len(form.coefficients) |->
               LET i == CHOOSE j \in 1..Len(b.dependencies) :
                            DepObject(b, j) = form.coefficients[k]
               IN  DepSaved(b, i)]>>

\* _recover_bcs: the saved value of every boundary-condition dependency.
recover_bcs(b) ==
    Collect(Len(b.dependencies),
            {i \in 1..Len(b.dependencies) : Kind(DepObject(b, i)) = "DirichletBC"},
            [i \in 1..Len(b.dependencies) |-> DepSaved(b, i)])

\* _replace_recompute_form: lhs, rhs, the initial guess and the boundary
\* conditions of the forward solve.
replace_recompute_form(b) ==
    [lhs  |-> replace_form(b, b.lhs),
     rhs  |-> IF b.linear THEN replace_form(b, b.rhs) ELSE <<"0">>,
     func |-> IF \E i \in 1..Len(b.dependencies) :
                     /\ DepObject(b, i) = b.func
                     /\ b.func \in Range(b.lhs.coefficients)
              THEN <<"initial_guess",
                     DepSaved(b, CHOOSE i \in 1..Len(b.dependencies) :
                                     DepObject(b, i) = b.func)>>
              ELSE <<"initial_guess">>,
     bcs  |-> recover_bcs(b)]

\* recompute_component: the forward solve of what was prepared.
recompute_component(b, prepared) ==
    [err |-> "none",
     value |-> <<"solution", prepared.lhs, prepared.rhs, prepared.func,
                 prepared.bcs>>,
     live_reads |-> {}]

\* One tangent-linear pass over Block i: the tangent value of the output is
\* computed from those of the dependencies and written to the output's
\* BlockVariable.  skips: the traversal leaves a Block none of whose
\* dependencies carries a tangent value without calling it.
TlmPass(i, skips) ==
    /\ stack = <<>>
    /\ last = NoPass
    /\ LET b == tape[i]
           skip == skips /\ \A j \in 1..Len(b.dependencies) : DepTlm(b, j) = None
           p == IF skip THEN [err |-> "none", prepared |-> NonePrepared]
                ELSE prepare_evaluate_tlm(b)
           done == p.err = "none" /\ ~skip
           c == IF done THEN evaluate_tlm_component(b, 1, p.prepared)
                ELSE [err |-> "none", value |-> None, terms |-> <<>>,
                      live_reads |-> {}]
       IN  /\ bvs' = IF done
                      THEN [bvs EXCEPT ![b.outputs[1]].tlm_value = c.value]
                      ELSE bvs
           /\ last' = [kind |-> "tlm", block |-> i, seed |-> None,
                       tlm_output |-> OutputTlm(b), relevant |-> {},
                       adj_sol0 |-> b.adj_sol, skipped |-> skip,
                       prepare_err |-> p.err, prepared |-> p.prepared,
                       err |-> p.err,
                       results |-> IF done
                                   THEN <<[dep |-> 0, value |-> c.value,
                                           live_reads |-> c.live_reads]>>
                                   ELSE <<>>,
                       evaluated |-> <<>>, calls |-> <<>>,
                       live_reads |-> c.live_reads]
    /\ UNCHANGED <<tape, block_variable, stack, stop_annotating, tt, live, sv>>

\* One recompute of Block i: prepare_recompute_component, then
\* recompute_component for the Block's output.
RecomputePass(i) ==
    /\ stack = <<>>
    /\ last = NoPass
    /\ LET b == tape[i]
           prepared == replace_recompute_form(b)
           c == recompute_component(b, prepared)
       IN  last' = [kind |-> "recompute", block |-> i, seed |-> None,
                    tlm_output |-> OutputTlm(b), relevant |-> {},
                    adj_sol0 |-> b.adj_sol, skipped |-> FALSE,
                    prepare_err |-> "none", prepared |-> prepared,
                    err |-> "none",
                    results |-> IF b.outputs = <<>> THEN <<>>
                                ELSE <<[dep |-> 0, value |-> c.value,
                                        live_reads |-> c.live_reads]>>,
                    evaluated |-> <<>>, calls |-> <<>>,
                    live_reads |-> {}]
    /\ UNCHANGED <<tape, bvs, block_variable, stack, stop_annotating, tt, live, sv>>

\* Between two passes the caller changes the objects in S (assigns to a
\* coefficient or a boundary value, moves the mesh).
MutationSets == { {"mesh"}, {"u", "f", "k", "e", "bc1", "bc2"} }

Mutate(S) ==
    /\ stack = <<>>
    /\ last = NoPass
    /\ \E o \in S : live[o] = 0
    /\ live' = [o \in DOMAIN live |-> IF o \in S THEN 1 ELSE live[o]]
    /\ UNCHANGED <<tape, bvs, block_variable, stack, stop_annotating, last, tt, sv>>

\* The objects that carry a tangent value, and the relevant dependencies
\* of a pass.
TangentSets == { {}, {"u", "mesh"}, {"u", "f", "k", "e", "bc1", "bc2", "mesh"} }

RelevantSets(b) ==
    {{}, 1..Len(b.dependencies)} \cup {{j} : j \in 1..Len(b.dependencies)}

ReplayCalls == [eq : Equations, bcs : BcLists, kwargs : {{}}]

InitReplay ==
    /\ \E c \in ReplayCalls, returned \in BOOLEAN, objs \in TangentSets :
           LET r == Recorded(c, returned)
           IN  /\ tape = r.tape
               /\ bvs = WithTangents(r.bvs, objs, None)
               /\ block_variable = r.block_variable
    /\ stack = <<>>
    /\ stop_annotating = 0
    /\ last = NoPass
    /\ tt = NoTaylor
    /\ live = InitLive
    /\ sv = NoSolver

NextReplay ==
    \/ \E S \in MutationSets : Mutate(S)
    \/ \E i \in 1..Len(tape) : RecomputePass(i)
    \/ \E i \in 1..Len(tape), skips \in BOOLEAN : TlmPass(i, skips)
    \/ \E i \in 1..Len(tape), g \in AdjInputs, skips \in BOOLEAN :
           \E rel \in RelevantSets(tape[i]) : AdjointPass(i, g, rel, skips)
    \/ \E i \in 1..Len(tape), h \in HessianInputs, skips \in BOOLEAN :
           \E rel \in RelevantSets(tape[i]) :
               HessianPass(i, h, OutputTlm(tape[i]), rel, skips)
    \/ PassEnd

SpecReplay == InitReplay /\ [][NextReplay]_vars

(***************************************************************************)
(* taylor_test and convergence_rates                                       *)
(***************************************************************************)
MaxControls == 2
MaxLen == 2

\* range(4): the number of perturbations.
NumEpsilons == 4

\* min(residuals) < 1E-15, for residuals that are 0 or a power of two:
\* 2^e < 1E-15 exactly when e <= -50.
NoiseFloorExp == -50

\* A residual is 0.0 or 2^e.
Zero == <<"zero">>
Pow2(e) == <<"pow2", e>>
Residuals == {Zero, Pow2(-60), Pow2(-20), Pow2(-22)}

\* The point m and the direction h: a list or tuple of len entries, or a
\* single object (isList = FALSE).
Arguments ==
    [isList : {TRUE}, len : 0..MaxLen] \cup [isList : {FALSE}, len : {1}]

\* Enlist(x): the list itself, or the one-element list of a single object.
EnlistLen(x) == IF x.isList THEN x.len ELSE 1

Min(a, b) == IF a <= b THEN a ELSE b

\* taylor_test, lines 26-29: "ok", or the argument the ValueError names.
validate_any_n(n, m, h) ==
    IF ~m.isList THEN "m" ELSE IF ~h.isList THEN "h" ELSE "ok"

validate_m_only(n, m, h) ==
    IF n > 1 /\ ~m.isList THEN "m" ELSE "ok"

validate(n, m, h) ==
    IF n > 1 /\ ~m.isList THEN "m"
    ELSE IF n > 1 /\ ~h.isList THEN "h"
    ELSE "ok"

\* J(values): a functional that checks its argument raises unless
\* Enlist(values) has one entry per control.
JRaises(strict, n, len) == strict /\ len # n

\* perturbe(eps), lines 41-43: "IndexError" when delist takes the first
\* entry of an empty list, else the number of entries J is called with.
perturbe(m, h) ==
    LET ret == Min(EnlistLen(m), EnlistLen(h))
    IN  IF m.isList THEN [err |-> "none", len |-> ret]
        ELSE IF ret = 0 THEN [err |-> "IndexError", len |-> 0]
        ELSE [err |-> "none", len |-> 1]

IsBelowFloor(r) == r = Zero \/ r[2] <= NoiseFloorExp

\* convergence_rates, line 62, for eps_values[i] / eps_values[i-1] = 1/2:
\* E_values[i] / E_values[i-1] raises ZeroDivisionError when E_values[i-1]
\* is 0.0; log(0.0) is -inf and the rate +inf; else the rate is e[i-1] - e[i].
rate(E, i) ==
    IF E[i - 1] = Zero THEN [err |-> "ZeroDivisionError", rate |-> None]
    ELSE IF E[i] = Zero THEN [err |-> "none", rate |-> <<"inf">>]
    ELSE [err |-> "none", rate |-> <<"num", E[i - 1][2] - E[i][2]>>]

\* convergence_rates: the list r, or the exception of its first failing entry.
convergence_rates(E) ==
    LET bad == {i \in 2..Len(E) : rate(E, i).err # "none"}
    IN  IF bad # {}
        THEN [err |-> rate(E, CHOOSE i \in bad : \A j \in bad : i <= j).err,
              r |-> <<>>]
        ELSE [err |-> "none", r |-> [i \in 1..(Len(E) - 1) |-> rate(E, i + 1).rate]]

RateLeq(a, b) ==
    IF b = <<"inf">> THEN TRUE
    ELSE IF a = <<"inf">> THEN FALSE
    ELSE a[2] <= b[2]

\* min(r)
MinRate(r) == CHOOSE x \in Range(r) : \A y \in Range(r) : RateLeq(x, y)

TaylorEnd(pc, err) == [tt EXCEPT !.pc = pc, !.err = err]

\* taylor_test, lines 26-34: the validation, then Enlist(h) and Enlist(m).
Validate ==
    /\ tt.pc = "called"
    /\ tt' = IF validate(tt.n, tt.m, tt.h) # "ok"
             THEN [TaylorEnd("raised", "ValueError") EXCEPT !.at = "validation"]
             ELSE [tt EXCEPT !.pc = "enlisted"]
    /\ UNCHANGED <<tape, bvs, block_variable, stack, stop_annotating, last, live, sv>>

\* taylor_test, line 36: Jm = J(m).
EvaluateJm ==
    /\ tt.pc = "enlisted"
    /\ tt' = IF JRaises(tt.strict, tt.n, EnlistLen(tt.m))
             THEN [TaylorEnd("raised", "ValueError")
                       EXCEPT !.at = "J", !.J_calls = @ + 1]
             ELSE [tt EXCEPT !.pc = "Jm", !.J_calls = @ + 1]
    /\ UNCHANGED <<tape, bvs, block_variable, stack, stop_annotating, last, live, sv>>

\* taylor_test, lines 37-39: the derivative, unless the caller gave it.
Derivative ==
    /\ tt.pc = "Jm"
    /\ tt' = IF tt.dJdm_given THEN [tt EXCEPT !.pc = "dJdm"]
             ELSE [tt EXCEPT !.pc = "dJdm", !.derivative_calls = @ + 1,
                             !.dot_terms = Min(EnlistLen(tt.h), tt.n)]
    /\ UNCHANGED <<tape, bvs, block_variable, stack, stop_annotating, last, live, sv>>

\* taylor_test, lines 47-50: one perturbation; res is the residual the
\* functional's value gives.
Perturb(res) ==
    /\ tt.pc = "dJdm"
    /\ Len(tt.residuals) < NumEpsilons
    /\ LET p == perturbe(tt.m, tt.h)
       IN  tt' = IF p.err # "none"
                 THEN [TaylorEnd("raised", p.err) EXCEPT !.at = "perturbe"]
                 ELSE IF JRaises(tt.strict, tt.n, p.len)
                 THEN [TaylorEnd("raised", "ValueError")
                           EXCEPT !.at = "J", !.J_calls = @ + 1]
                 ELSE [tt EXCEPT !.J_calls = @ + 1,
                                 !.residuals = Append(@, res)]
    /\ UNCHANGED <<tape, bvs, block_variable, stack, stop_annotating, last, live, sv>>

\* taylor_test, lines 52-55: the advisory and the result.
Rates ==
    /\ tt.pc = "dJdm"
    /\ Len(tt.residuals) = NumEpsilons
    /\ LET warn == \E k \in 1..NumEpsilons : IsBelowFloor(tt.residuals[k])
           c == convergence_rates(tt.residuals)
       IN  tt' = IF c.err # "none"
                 THEN [TaylorEnd("raised", c.err)
                           EXCEPT !.at = "convergence_rates", !.warned = warn]
                 ELSE [TaylorEnd("returned", "none")
                           EXCEPT !.warned = warn, !.result = MinRate(c.r)]
    /\ UNCHANGED <<tape, bvs, block_variable, stack, stop_annotating, last, live, sv>>

InitTaylor ==
    /\ tape = <<>>
    /\ bvs = InitBlockVariables
    /\ block_variable = InitBlockVariableOf
    /\ stack = <<>>
    /\ stop_annotating = 0
    /\ last = NoPass
    /\ live = InitLive
    /\ sv = NoSolver
    /\ \E n \in 1..MaxControls, m \in Arguments, h \in Arguments,
          given \in BOOLEAN, strict \in BOOLEAN :
           tt = [pc |-> "called", n |-> n, m |-> m, h |-> h,
                 dJdm_given |-> given, strict |-> strict,
                 J_calls |-> 0, derivative_calls |-> 0, dot_terms |-> 0,
                 residuals |-> <<>>, warned |-> FALSE, result |-> None,
                 err |-> "none", at |-> "none"]

NextTaylor ==
    \/ Validate
    \/ EvaluateJm
    \/ Derivative
    \/ \E res \in Residuals : Perturb(res)
    \/ Rates

SpecTaylor == InitTaylor /\ [][NextTaylor]_vars

(***************************************************************************)
(* The solver of the adjoint equation of a variational solve               *)
(***************************************************************************)
\* What the caller of solve gives: solver_parameters (None, or the dict
\* with its linear_solver and preconditioner entries, None when the key is
\* absent), forward_kwargs, adj_args and adj_kwargs (empty when not given).
LinearSolvers == {None, <<"lu">>, <<"mumps">>, <<"cg">>}
Preconditioners == {None, <<"ilu">>}
SolverParameters ==
    {None} \cup [linear_solver : LinearSolvers, preconditioner : Preconditioners]
AdjArgs == { <<>>, << <<"gmres">> >>, << <<"gmres">>, <<"amg">> >> }
AdjKwargs == { <<>>, <<"adj_kwargs">> }
ForwardKwargs == { <<>>, <<"forward_kwargs">> }

\* backend.lu_solver_methods()
LuSolverMethods == {<<"default">>, <<"mumps">>}

\* kwargs.get("solver_parameters", {}) and "key" in solver_parameters
HasKey(solver_parameters, key) ==
    solver_parameters # None /\ solver_parameters[key] # None

\* SolveVarFormBlock._init_solver_parameters, lines 600-607: adj_args and
\* adj_kwargs of the Block.
init_adj_parameters(given) ==
    IF Len(given.adj_kwargs) <= 0
    THEN [adj_args |->
              IF HasKey(given.solver_parameters, "linear_solver")
              THEN <<given.solver_parameters.linear_solver>>
                   \o (IF HasKey(given.solver_parameters, "preconditioner")
                       THEN <<given.solver_parameters.preconditioner>>
                       ELSE <<>>)
              ELSE given.adj_args,
          adj_kwargs |-> <<"solver_parameters", given.solver_parameters>>]
    ELSE [adj_args |-> given.adj_args, adj_kwargs |-> given.adj_kwargs]

\* SolveVarFormBlock._init_solver_parameters, lines 590-595: forward_kwargs
\* of the Block (the remaining keyword arguments when none is given).
init_forward_kwargs(given) ==
    IF Len(given.forward_kwargs) <= 0
    THEN <<"kwargs", given.solver_parameters>>
    ELSE given.forward_kwargs

\* SolveVarFormBlock._assemble_and_solve_adj_eq, lines 617-626: the solver.
select_adj_solver(adj_args) ==
    LET method0 == IF Len(adj_args) >= 1 THEN adj_args[1] ELSE <<"default">>
        solver_method == IF method0 = <<"lu">> THEN <<"default">> ELSE method0
    IN  IF solver_method \in LuSolverMethods
        THEN [class |-> "LUSolver", args |-> <<solver_method>>,
              parameters |-> "lu_solver"]
        ELSE [class |-> "KrylovSolver", args |-> adj_args,
              parameters |-> "krylov_solver"]

\* SolveVarFormBlock.__init__: the Block's solver configuration.
InitSolverParameters ==
    /\ sv.pc = "called"
    /\ LET a == init_adj_parameters(sv.given)
       IN  sv' = [sv EXCEPT !.pc = "constructed",
                            !.forward_kwargs = init_forward_kwargs(sv.given),
                            !.adj_args = a.adj_args,
                            !.adj_kwargs = a.adj_kwargs]
    /\ UNCHANGED <<tape, bvs, block_variable, stack, stop_annotating, last, tt, live>>

\* SolveVarFormBlock._assemble_and_solve_adj_eq: the adjoint solve.
AssembleAndSolveAdjEq ==
    /\ sv.pc = "constructed"
    /\ sv' = [sv EXCEPT !.pc = "solved", !.solver = select_adj_solver(sv.adj_args)]
    /\ UNCHANGED <<tape, bvs, block_variable, stack, stop_annotating, last, tt, live>>

InitSolver ==
    /\ tape = <<>>
    /\ bvs = InitBlockVariables
    /\ block_variable = InitBlockVariableOf
    /\ stack = <<>>
    /\ stop_annotating = 0
    /\ last = NoPass
    /\ tt = NoTaylor
    /\ live = InitLive
    /\ \E sp \in SolverParameters, fk \in ForwardKwargs, aa \in AdjArgs,
          ak \in AdjKwargs :
           sv = [pc |-> "called",
                 given |-> [solver_parameters |-> sp, forward_kwargs |-> fk,
                            adj_args |-> aa, adj_kwargs |-> ak],
                 forward_kwargs |-> <<>>, adj_args |-> <<>>,
                 adj_kwargs |-> <<>>, solver |-> None]

NextSolver ==
    \/ InitSolverParameters
    \/ AssembleAndSolveAdjEq

SpecSolver == InitSolver /\ [][NextSolver]_vars

(***************************************************************************)
(* Properties of the recording phase (SpecSolve)                           *)
(***************************************************************************)
Blocks == 1..Len(tape)

DepObjects(b) == [i \in 1..Len(b.dependencies) |-> bvs[b.dependencies[i]].output]

\* The elements of s in order of first occurrence.
RECURSIVE FirstOccurrences(_)
FirstOccurrences(s) ==
    IF s = <<>> THEN <<>>
    ELSE LET init == SubSeq(s, 1, Len(s) - 1)
             x == s[Len(s)]
         IN  IF x \in Range(init) THEN FirstOccurrences(init)
             ELSE Append(FirstOccurrences(init), x)

\* What the Block's constructor was asked to register, in registration order.
Registered(b) ==
    (IF b.linear THEN b.rhs.coefficients ELSE <<>>)
        \o b.lhs.coefficients \o b.bcs \o <<"mesh">>

\* C5: the tape order is a topological order: a dependency produced by a
\* Block was produced by a Block appended strictly earlier, and a Block's
\* output BlockVariable is never one of its own dependencies.
C5_TapeOrder ==
    \A b \in Blocks :
        /\ \A i \in 1..Len(tape[b].dependencies) :
               LET d == bvs[tape[b].dependencies[i]]
               IN  d.creator # 0 => d.creator < b
        /\ \A j \in 1..Len(tape[b].outputs) :
               /\ tape[b].outputs[j] \notin Range(tape[b].dependencies)
               /\ bvs[tape[b].outputs[j]].creator = b

\* A nonlinear Block whose residual holds the unknown has its output, and the
\* unknown it depends on was produced by the Block before it.
C5_Witness ==
    /\ Len(tape) = 2
    /\ ~tape[2].linear
    /\ tape[2].func \in Range(tape[2].lhs.coefficients)
    /\ tape[2].outputs # <<>>
    /\ \E i \in 1..Len(tape[2].dependencies) :
           /\ bvs[tape[2].dependencies[i]].creator = 1
           /\ bvs[tape[2].dependencies[i]].output = tape[2].func

\* C6: the dependency list of every Block holds each dependency once, in
\* first-registration order (rhs of a linear equation, lhs, boundary
\* conditions, mesh).
C6_DependencyDedup ==
    \A b \in Blocks :
        /\ \A i, j \in 1..Len(tape[b].dependencies) :
               tape[b].dependencies[i] = tape[b].dependencies[j] => i = j
        /\ DepObjects(tape[b]) = FirstOccurrences(Registered(tape[b]))

\* A linear Block with a coefficient on both sides and a boundary condition
\* listed twice.
C6_Witness ==
    \E b \in Blocks :
        /\ tape[b].linear
        /\ Range(tape[b].rhs.coefficients) \cap Range(tape[b].lhs.coefficients) # {}
        /\ \E i, j \in 1..Len(tape[b].bcs) : i # j /\ tape[b].bcs[i] = tape[b].bcs[j]
        /\ Len(tape[b].dependencies) < Len(Registered(tape[b]))

\* The step that ends a call, against what the call's frame recorded when
\* the call began.
C7_CallEnd ==
    Len(stack') < Len(stack) =>
        LET fr == stack[Len(stack)]
        IN  /\ ~fr.annotate =>
                   /\ tape' = fr.tape0
                   /\ Len(bvs') = fr.nbvs0
                   /\ block_variable' = block_variable
                   /\ fr.backend_kwargs = fr.kwargs \ {"annotate"}
            /\ fr.annotate =>
                   /\ Len(tape') = Len(fr.tape0) + 1
                   /\ SubSeq(tape', 1, Len(fr.tape0)) = fr.tape0
                   /\ fr.block = Len(fr.tape0) + 1
                   /\ Len(bvs') \in {fr.nbvs0, fr.nbvs0 + 1}

\* C7: a call that ends without annotation leaves the tape, the
\* BlockVariables and the objects' current BlockVariables as they were when
\* it began, and gave backend.solve its own keyword arguments (less the
\* annotate switch); a call that ends with annotation has appended exactly
\* one Block to the tape it began with, whatever ran inside backend.solve.
C7_AnnotateOff == [][C7_CallEnd]_vars

\* An annotated call is inside backend.solve, and a call made from there
\* without annotate=False is not annotated.
C7_Witness ==
    /\ Len(stack) = 2
    /\ stack[1].annotate
    /\ ~stack[2].annotate
    /\ "annotate" \notin stack[2].kwargs
    /\ Len(tape) = Len(stack[1].tape0) + 1

(***************************************************************************)
(* Properties of the replay passes (Spec)                                  *)
(***************************************************************************)
PassBlock == tape[last.block]

HasOutput == PassBlock.outputs # <<>>

\* Dependency i of the pass's Block is the unknown of a nonlinear Block.
IsNonlinearUnknown(i) ==
    ~PassBlock.linear /\ DepObject(PassBlock, i) = PassBlock.func

RelevantBCs ==
    {i \in last.relevant : Kind(DepObject(PassBlock, i)) = "DirichletBC"}

Times(cb) == Cardinality({k \in 1..Len(last.calls) : last.calls[k].cb = cb})

\* C1 as stated: a Hessian pass over a Block whose adj_sol is unset ends in
\* an error, whatever the Hessian seed and the output's tangent value are.
C1_AsStated ==
    (last.kind = "hessian" /\ last.adj_sol0 = None) => last.err # "none"

\* C1: a Hessian pass over a Block whose adj_sol is unset ends in an error
\* in its prepare step, with no callback invoked and no component evaluated,
\* whenever the Hessian seed and the output's tangent value are both given;
\* when one of them is missing the prepare step of a Block that has its
\* output returns without a result and without an error.
C1_HessianBeforeAdjoint ==
    (last.kind = "hessian" /\ last.adj_sol0 = None) =>
        /\ (last.seed # None /\ last.tlm_output # None) =>
               /\ last.prepare_err = IF HasOutput THEN "RuntimeError"
                                     ELSE "IndexError"
               /\ last.err = last.prepare_err
               /\ last.calls = <<>>
               /\ last.evaluated = <<>>
        /\ ((last.seed = None \/ last.tlm_output = None) /\ HasOutput) =>
               /\ last.prepare_err = "none"
               /\ last.prepared = NonePrepared

C1_Witness ==
    /\ last.kind = "hessian"
    /\ last.adj_sol0 = None
    /\ last.seed # None
    /\ last.tlm_output # None
    /\ last.relevant # {}
    /\ last.err = "RuntimeError"

\* C2 as stated: a Hessian pass over a Block whose output has no tangent
\* value ends in an error.
C2_AsStated ==
    (last.kind = "hessian" /\ last.tlm_output = None) => last.err # "none"

\* C2: in a Hessian pass over a Block whose output has no tangent value the
\* prepare step returns without a result and without an error (the Block
\* having its output); the pass then fails exactly when a component is
\* evaluated for a dependency other than the unknown of a nonlinear Block,
\* for which the component is None; unless the traversal skipped the Block,
\* the components of the relevant dependencies are evaluated in turn.
C2_HessianWithoutTangent ==
    (last.kind = "hessian" /\ last.tlm_output = None /\ HasOutput) =>
        /\ last.prepare_err = "none"
        /\ last.prepared = NonePrepared
        /\ last.calls = <<>>
        /\ last.err # "none" <=>
               \E k \in 1..Len(last.evaluated) :
                   ~IsNonlinearUnknown(last.evaluated[k])
        /\ Range(last.evaluated) \subseteq last.relevant
        /\ (~last.skipped /\ last.err = "none") =>
               Range(last.evaluated) = last.relevant
        /\ (~last.skipped /\ last.relevant # {}) => last.evaluated # <<>>
        /\ last.err \in {"none", "TypeError"}
        /\ \A k \in 1..Len(last.results) : last.results[k].value = None

\* A pass with a Hessian seed but without a tangent value ended normally
\* after evaluating the component of a nonlinear Block's unknown.
C2_Witness ==
    /\ last.kind = "hessian"
    /\ last.tlm_output = None
    /\ last.seed # None
    /\ HasOutput
    /\ last.relevant # {}
    /\ last.err = "none"
    /\ Len(last.results) = 1

\* C8: in an adjoint pass each first-order callback is invoked at most once
\* and no second-order callback is; in a Hessian pass each second-order
\* callback is invoked at most once and no first-order callback is; a
\* boundary callback is invoked only when a boundary condition is among the
\* relevant dependencies, and then with a boundary solution that is not None.
C8_Callbacks ==
    last.kind \in {"adj", "hessian"} =>
        /\ \A cb \in CallbackKeys : Times(cb) <= 1
        /\ last.kind = "adj" => Times("adj2_cb") = 0 /\ Times("adj2_bdy_cb") = 0
        /\ last.kind = "hessian" => Times("adj_cb") = 0 /\ Times("adj_bdy_cb") = 0
        /\ \A k \in 1..Len(last.calls) :
               /\ last.calls[k].cb \in CallbackKeys
               /\ last.calls[k].cb \in {"adj_bdy_cb", "adj2_bdy_cb"} =>
                      /\ RelevantBCs # {}
                      /\ last.calls[k].arg # None

\* Both second-order callbacks were invoked in a Hessian pass over a Block
\* that also holds the first-order callbacks.
C8_Witness ==
    /\ last.kind = "hessian"
    /\ Times("adj2_cb") = 1
    /\ Times("adj2_bdy_cb") = 1
    /\ PassBlock.adj_cb
    /\ PassBlock.adj_bdy_cb
    /\ RelevantBCs # {}

\* The result recorded for dependency i, as a sequence of at most one value.
ResultsFor(i) ==
    SelectSeq(last.results, LAMBDA r : r.dep = i)

BoundaryOf(prepared) ==
    IF last.kind = "adj" THEN prepared.adj_sol_bdy ELSE prepared.adj_sol2_bdy

\* C10 as stated: whenever a component is evaluated for a relevant boundary
\* condition, the prepare step has computed the boundary solution, and the
\* component is the boundary condition with that solution as its value.
C10_AsStated ==
    last.kind \in {"adj", "hessian"} =>
        \A k \in 1..Len(last.evaluated) :
            LET i == last.evaluated[k]
            IN  i \in RelevantBCs =>
                    /\ last.prepared # NonePrepared
                    /\ BoundaryOf(last.prepared) # None
                    /\ \A j \in 1..Len(ResultsFor(i)) :
                           ResultsFor(i)[j].value =
                               <<"bc", DepObject(PassBlock, i),
                                 BoundaryOf(last.prepared)>>

\* C10: whenever a component is evaluated for a relevant boundary condition
\* in a pass whose prepare step returned a result, that result holds a
\* boundary solution that is not None and the component is the boundary
\* condition with that solution as its value; when the prepare step
\* returned no result the evaluation raises and yields no component.
C10_BoundaryComponent ==
    last.kind \in {"adj", "hessian"} =>
        \A k \in 1..Len(last.evaluated) :
            LET i == last.evaluated[k]
            IN  i \in RelevantBCs =>
                    IF last.prepared # NonePrepared
                    THEN /\ BoundaryOf(last.prepared) # None
                         /\ Len(ResultsFor(i)) = 1
                         /\ ResultsFor(i)[1].value =
                                <<"bc", DepObject(PassBlock, i),
                                  BoundaryOf(last.prepared)>>
                    ELSE /\ last.err = "TypeError"
                         /\ ResultsFor(i) = <<>>
                         /\ k = Len(last.evaluated)

\* A Hessian pass returned the components of two boundary conditions.
C10_Witness ==
    /\ last.kind = "hessian"
    /\ last.err = "none"
    /\ Cardinality(RelevantBCs) = 2
    /\ \A i \in RelevantBCs : Len(ResultsFor(i)) = 1

(***************************************************************************)
(* Properties of taylor_test (SpecTaylor)                                  *)
(***************************************************************************)
NotAList == tt.n > 1 /\ (~tt.m.isList \/ ~tt.h.isList)

\* C3 as stated: taylor_test returns a convergence rate only when point and
\* direction, given as lists, have one entry per control.
C3_AsStated ==
    tt.pc = "returned" =>
        /\ tt.m.isList => tt.m.len = tt.n
        /\ tt.h.isList => tt.h.len = tt.n

\* C3: taylor_test itself raises its validation error exactly when J has
\* more than one control and point or direction is not a list or tuple; with
\* a functional that rejects an argument of the wrong length, it returns a
\* rate only when point has one entry per control and direction at least
\* one entry per control (further entries of direction are dropped).
C3_Arity ==
    /\ tt.pc # "called" => (tt.at = "validation" <=> NotAList)
    /\ (tt.pc = "returned" /\ tt.strict) =>
           /\ EnlistLen(tt.m) = tt.n
           /\ EnlistLen(tt.h) >= tt.n

\* A rate is returned for a direction with more entries than controls.
C3_Witness ==
    /\ tt.pc = "returned"
    /\ tt.strict
    /\ tt.h.isList
    /\ tt.h.len > tt.n
    /\ tt.J_calls = NumEpsilons + 1

\* C4: when J has more than one control and point or direction is not a
\* list or tuple, taylor_test ends in the ValueError of its validation with
\* J never evaluated and no derivative requested.
C4_ValidationFirst ==
    (NotAList /\ tt.pc # "called") =>
        /\ tt.pc = "raised"
        /\ tt.err = "ValueError"
        /\ tt.at = "validation"
        /\ tt.J_calls = 0
        /\ tt.derivative_calls = 0
        /\ tt.residuals = <<>>

\* The direction alone is not a list.
C4_Witness ==
    /\ tt.pc = "raised"
    /\ tt.n > 1
    /\ tt.m.isList
    /\ tt.m.len = tt.n
    /\ ~tt.h.isList
    /\ ~tt.dJdm_given

\* C9: with four residuals of which at least one is below the noise floor
\* (0.0 included), taylor_test returns a convergence rate.
C9_AsStated ==
    (/\ tt.pc \in {"returned", "raised"}
     /\ Len(tt.residuals) = NumEpsilons
     /\ \E k \in 1..NumEpsilons : IsBelowFloor(tt.residuals[k]))
        => tt.pc = "returned"

(***************************************************************************)
(* Properties of replay with tangent values (SpecReplay)                   *)
(***************************************************************************)
\* The dependencies a list of derivative terms is taken with respect to.
TermDeps(terms) == {terms[k].dep : k \in 1..Len(terms)}

IsHessianValue(v) == v # None /\ v[1] \in {"hessian", "hessian_in_space"}

\* The dependencies of the pass's Block that are its unknown.
UnknownDeps ==
    {i \in 1..Len(PassBlock.dependencies) :
        DepObject(PassBlock, i) = PassBlock.func}

\* The derivative terms of the pass that take a tangent value: those of
\* the tangent-linear component, the cross terms of the second-order
\* right-hand side, and the cross terms of every Hessian component.
TangentTermsUsed ==
    (IF last.kind = "tlm" /\ last.results # <<>>
     THEN TermDeps(last.results[1].value[3]) ELSE {})
    \cup (IF last.kind = "hessian" /\ last.prepared # NonePrepared
          THEN TermDeps(last.prepared.adj_sol2[3][5]) ELSE {})
    \cup (IF last.kind = "hessian"
          THEN UNION {TermDeps(last.results[k].value[6]) :
                        k \in {j \in 1..Len(last.results) :
                                 IsHessianValue(last.results[j].value)}}
          ELSE {})

\* C11: in every pass over a nonlinear Block the component of a dependency
\* that is the unknown is None, its evaluation raises nothing, and no
\* derivative term of the tangent-linear component, of the second-order
\* right-hand side or of a Hessian component is taken with respect to it,
\* whatever tangent value it carries; in a linear Block the same dependency
\* has the assembled component of a coefficient and its tangent value enters
\* the tangent-linear component and the second-order right-hand side.
C11_InitialGuess ==
    last.kind \in {"adj", "hessian", "tlm"} =>
        \A i \in UnknownDeps :
            IF ~PassBlock.linear
            THEN /\ i \in Range(last.evaluated) =>
                        /\ Len(ResultsFor(i)) = 1
                        /\ ResultsFor(i)[1].value = None
                 /\ i \notin TangentTermsUsed
            ELSE /\ \A k \in 1..Len(ResultsFor(i)) :
                        ResultsFor(i)[k].value[1] \in {"assembled", "hessian"}
                 /\ (last.kind = "tlm" /\ last.results # <<>>) =>
                        (i \in TermDeps(last.results[1].value[3])
                             <=> DepTlm(PassBlock, i) # None)
                 /\ (last.kind = "hessian" /\ last.prepared # NonePrepared) =>
                        (i \in TermDeps(last.prepared.adj_sol2[3][5])
                             <=> DepTlm(PassBlock, i) # None)

\* A tangent-linear pass over a nonlinear Block whose unknown carries a
\* tangent value, with the term of another dependency in the component.
C11_Witness ==
    /\ last.kind = "tlm"
    /\ ~PassBlock.linear
    /\ \E i \in UnknownDeps : DepTlm(PassBlock, i) # None
    /\ last.results # <<>>
    /\ last.results[1].value[3] # <<>>

(***************************************************************************)
(* Properties of the adjoint solver selection (SpecSolver)                 *)
(***************************************************************************)
\* The solver method the forward configuration selects.
ForwardMethod ==
    IF HasKey(sv.given.solver_parameters, "linear_solver")
    THEN sv.given.solver_parameters.linear_solver
    ELSE <<"default">>

\* C12 as stated: the adjoint solve uses the linear_solver and
\* preconditioner of the forward configuration when the caller gives neither
\* adj_args nor adj_kwargs, uses adj_args and adj_kwargs unchanged when the
\* caller gives them, and with no configuration at all uses the direct
\* method.
C12_AsStated ==
    sv.pc = "solved" =>
        /\ (sv.given.adj_args = <<>> /\ sv.given.adj_kwargs = <<>>) =>
               /\ (IF sv.adj_args = <<>> THEN <<"default">> ELSE sv.adj_args[1])
                      = ForwardMethod
               /\ HasKey(sv.given.solver_parameters, "linear_solver") =>
                      (Len(sv.adj_args) = 2 <=>
                           HasKey(sv.given.solver_parameters, "preconditioner"))
               /\ Len(sv.adj_args) = 2 =>
                      sv.adj_args[2] = sv.given.solver_parameters.preconditioner
        /\ sv.given.adj_args # <<>> => sv.adj_args = sv.given.adj_args
        /\ sv.given.adj_kwargs # <<>> => sv.adj_kwargs = sv.given.adj_kwargs
        /\ (sv.given.solver_parameters = None /\ sv.given.adj_args = <<>>
                /\ sv.given.adj_kwargs = <<>>) =>
               sv.solver = [class |-> "LUSolver", args |-> << <<"default">> >>,
                            parameters |-> "lu_solver"]

\* The value a run of the pass reads for object c when no object has been
\* changed since recording.
UnchangedValue(c) == <<"live", c, InitLive[c]>>

\* C13 as stated: the result of a pass is the one the same pass gives when
\* no object has been changed since recording (every value that entered it
\* is a saved one, or a live one equal to it), and recompute applies the
\* saved value of every boundary condition recorded on the Block.
C13_AsStated ==
    last.kind \in {"recompute", "adj", "tlm", "hessian"} =>
        /\ \A c \in last.live_reads : LiveValue(c) = UnchangedValue(c)
        /\ last.kind = "recompute" =>
               Range(last.prepared.bcs) =
                   {Snapshot(bc, 0) : bc \in Range(PassBlock.bcs)}

\* The step is a pass over Block i.
PassOver(i) == last = NoPass /\ last' # NoPass /\ last'.block = i

C15_AsStated ==
    stack = <<>> => \A b \in Blocks : Len(tape[b].outputs) = 1

====
